---- MODULE Spec2Model ----
(***************************************************************************)
(* RepoChat (git_repo_ssh.py): a chat client that keeps its messages in a  *)
(* text file of a git working copy.  The model covers the synchronisation  *)
(* code: git_pull, git_commit_and_push, read_chat_file, append_message and *)
(* the GitChatApp methods _load_initial, refresh, send, _auto_refresh_loop *)
(* and on_quit, together with the threads they start.                      *)
(*                                                                         *)
(* Text is a sequence of one-character strings.  The log file and the      *)
(* in-memory copy are sequences of lines; a line carries its text and,     *)
(* as a ghost field, the identity of the entry that produced it.           *)
(*                                                                         *)
(* git is the environment.  Its state is the working file, the index, the  *)
(* local branch head and the remote branch, each as the content of         *)
(* texts.txt.  Every git command may fail for a reason of the environment  *)
(* (network, lock file); it succeeds only where git would succeed.         *)
(***************************************************************************)
EXTENDS Integers, Sequences, FiniteSets, TLC

(* ------------------------------ bounds --------------------------------- *)
MaxRefresh == 1        \* manual refresh threads alive at the same time
MaxSendTasks == 1      \* send threads alive at the same time
MaxSends == 2          \* non-blank sends over a run
MaxRemote == 1         \* lines other replicas push over a run
MaxQueue == 2          \* callbacks pending in the Tk event queue

(* ------------------------- program constants --------------------------- *)
MAX_RETRIES == 3

AutoId == 0
Refreshers == 1..MaxRefresh
Pullers == {AutoId} \cup Refreshers
Senders == 1..MaxSendTasks

(* ------------------------------- text ---------------------------------- *)
Space == " "
Newline == "\n"
Anon == <<"A", "n", "o", "n">>

RawUsers == { <<>>, <<Space>>, <<"B">>, <<Space, "B">> }
RawMsgs == { <<>>, <<Space>>, <<"h">>, <<"h", Space>> }
Times == { "10:00:00" }

\* the stderr texts git can fail with, as far as git_pull tells them apart
Diags == { "fatal: couldn't find remote ref refs/heads/main",
           "There is No Upstream branch",
           "fatal: unable to access remote" }

IsSpace(c) == c \in {Space, Newline}

RECURSIVE LStrip(_)
LStrip(s) == IF s # <<>> /\ IsSpace(Head(s)) THEN LStrip(Tail(s)) ELSE s

RECURSIVE RStrip(_)
RStrip(s) ==
    IF s # <<>> /\ IsSpace(s[Len(s)]) THEN RStrip(SubSeq(s, 1, Len(s) - 1)) ELSE s

\* the message taken as typed
StripNothing(s) == s
\* str.strip()
Strip(s) == RStrip(LStrip(s))

\* `"refs/head" in str(e)`
ContainsRefsHead(d) == d = "fatal: couldn't find remote ref refs/heads/main"

\* str(e).lower()
Lower(d) == IF d = "There is No Upstream branch" THEN "there is no upstream branch" ELSE d

\* `"no upstream" in s`
ContainsNoUpstream(s) == s = "there is no upstream branch"

\* the test of git_pull's except clause
UpstreamMissing(d) == ContainsRefsHead(d) \/ ContainsNoUpstream(Lower(d))

IsPrefix(s, t) == Len(s) <= Len(t) /\ SubSeq(t, 1, Len(s)) = s

\* the text of a content, as read_chat_file returns it and as != compares it
Texts(c) == [i \in DOMAIN c |-> c[i].text]

Count(c, id) == Cardinality({i \in DOMAIN c : c[i].id = id})

(* ------------------------------ log store ------------------------------ *)
\* the line append_message formats: f"[{ts}] {user}: {msg}\n"
FormatLine(ts, user, msg) ==
    <<"[", ts, "]", Space>> \o user \o <<":", Space>> \o msg \o <<Newline>>

\* append_message: open(TEXT_FILE, "a").write(line)
\* the file opened with "w"
AppendMessageOverwrite(f, line) == <<line>>
AppendMessageNotYet(f, line) == f
AppendMessageTwice(f, line) == Append(Append(f, line), line)
AppendMessage(f, line) == Append(f, line)

\* read_chat_file: the whole file, "" when it does not exist
ReadChatFile(f) == f

\* `self._username.get().strip() or "Anon"`
UserOf(raw) == IF Strip(raw) = <<>> THEN Anon ELSE Strip(raw)

\* a line other replicas wrote: the one the log starts with (k = 0) and the
\* ones they push during the run
OtherLine(k) ==
    [id |-> 0 - k, ts |-> "09:59:59", user |-> <<"C">>, msg |-> <<"y">>,
     text |-> FormatLine("09:59:59", <<"C">>, <<"y">>)]

NoLine == [id |-> 0, ts |-> "", user |-> <<>>, msg |-> <<>>, text |-> <<>>]

(* -------------------------------- state -------------------------------- *)
VARIABLES
    file,          \* texts.txt in the working copy
    index,         \* texts.txt as staged
    head,          \* texts.txt at the local branch head
    remote,        \* texts.txt at origin/main
    snapshot,      \* self._current_content
    display,       \* the text of self.chat_area
    status,        \* self._status_text
    autoRefresh,   \* self._auto_refresh
    stopEvent,     \* self._stop_event
    alive,         \* the Tk application exists (not yet destroyed)
    uiQueue,       \* callbacks handed to the Tk thread with after(0, ...)
    pl,            \* the auto-refresh thread (AutoId) and the refresh threads
    snd,           \* the send threads
    nSent,         \* non-blank sends so far
    nRemote,       \* lines pushed by other replicas so far
    ev             \* what the last step did (ghost)

vars == <<file, index, head, remote, snapshot, display, status,
          autoRefresh, stopEvent, alive, uiQueue, pl, snd, nSent, nRemote, ev>>

gitVars == <<file, index, head, remote>>
uiVars == <<display, status, uiQueue>>
ctlVars == <<autoRefresh, stopEvent, alive>>
cntVars == <<nSent, nRemote>>

St(kind, n, diag) == [kind |-> kind, n |-> n, diag |-> diag]

Ev(op, who, pulls, repairs, same, shown) ==
    [op |-> op, who |-> who, pulls |-> pulls, repairs |-> repairs,
     same |-> same, shown |-> shown]

Quiet(op, who) == Ev(op, who, 0, 0, FALSE, FALSE)

NoEv == Quiet("", AutoId)

Puller(pc, content, pulls, repairs) ==
    [pc |-> pc, content |-> content, pulls |-> pulls, repairs |-> repairs]

IdleSender ==
    [pc |-> "idle", line |-> NoLine, attempt |-> 0, retries |-> <<>>,
     trace |-> <<>>, outcome |-> "none", fileAt |-> <<>>, snapAt |-> <<>>]

PullPcs == {"pull1", "revparse", "setupstream", "pull2"}
PushPcs == {"add", "commit", "push"}

(* ------------------------------ git_pull -------------------------------- *)
\* `git pull origin main` succeeds when there is nothing to merge, or when the
\* local branch can be fast-forwarded over an unmodified texts.txt; two
\* appends to the end of the same file do not merge.  A pull that fails is
\* taken to leave the working copy as it was (the conflict markers of a
\* failed merge are not modelled).
UpToDate == IsPrefix(remote, head)
FastForward == IsPrefix(head, remote) /\ head # remote /\ file = head /\ index = head
PullCanSucceed == UpToDate \/ FastForward

\* where git_pull goes after pull number n failed with stderr d
AfterPullFailAlways(n, d) == IF UpstreamMissing(d) THEN "revparse" ELSE "raise"
AfterPullFail(n, d) == IF n = 1 /\ UpstreamMissing(d) THEN "revparse" ELSE "raise"

\* `except Exception as e: self._set_status(f"Refresh error: {e}")`
OnRefreshErrorSilent(st, d) == st
OnRefreshError(st, d) == St("Refresh error", 0, d)

\* the except clause of refresh._do taken by every thread
RaiseShown(p, d) ==
    /\ pl' = [pl EXCEPT ![p] = IF p = AutoId
                                  THEN Puller("sleep", pl[p].content, 0, 0)
                                  ELSE Puller("idle", <<>>, 0, 0)]
    /\ status' = IF alive THEN OnRefreshError(status, d) ELSE status
    /\ ev' = Ev("Raise", p, pl[p].pulls, pl[p].repairs, FALSE, FALSE)
    /\ UNCHANGED <<snapshot, display, uiQueue>>
\* the except clause a failed git_pull (or read) ends in, for thread p: the
\* one of refresh._do shows the error, the one of the loop is `pass`
Raise(p, d) ==
    /\ pl' = [pl EXCEPT ![p] = IF p = AutoId
                                  THEN Puller("sleep", pl[p].content, 0, 0)
                                  ELSE Puller("idle", <<>>, 0, 0)]
    /\ status' = IF p # AutoId /\ alive THEN OnRefreshError(status, d) ELSE status
    /\ ev' = Ev("Raise", p, pl[p].pulls, pl[p].repairs, FALSE, FALSE)
    /\ UNCHANGED <<snapshot, display, uiQueue>>

PullOk(p) ==
    /\ pl[p].pc \in {"pull1", "pull2"}
    /\ PullCanSucceed
    /\ IF FastForward
         THEN /\ file' = remote
              /\ index' = remote
              /\ head' = remote
         ELSE UNCHANGED <<file, index, head>>
    /\ pl' = [pl EXCEPT ![p].pc = "read"]
    /\ ev' = NoEv
    /\ UNCHANGED <<remote, snapshot, uiVars, ctlVars, snd, cntVars>>

PullFail(p, d) ==
    /\ pl[p].pc \in {"pull1", "pull2"}
    /\ IF AfterPullFail(pl[p].pulls, d) = "revparse"
         THEN /\ pl' = [pl EXCEPT ![p].pc = "revparse"]
              /\ ev' = NoEv
              /\ UNCHANGED <<snapshot, uiVars>>
         ELSE Raise(p, d)
    /\ UNCHANGED <<gitVars, ctlVars, snd, cntVars>>

RevParseOk(p) ==
    /\ pl[p].pc = "revparse"
    /\ pl' = [pl EXCEPT ![p].pc = "setupstream"]
    /\ ev' = NoEv
    /\ UNCHANGED <<gitVars, snapshot, uiVars, ctlVars, snd, cntVars>>

\* `git branch --set-upstream-to origin/main <branch>` writes the branch's
\* upstream into the git configuration, which no command of the program
\* reads: pull and push name the remote and the branch
SetUpstreamOk(p) ==
    /\ pl[p].pc = "setupstream"
    /\ pl' = [pl EXCEPT ![p].pc = "pull2", ![p].pulls = @ + 1, ![p].repairs = @ + 1]
    /\ ev' = NoEv
    /\ UNCHANGED <<gitVars, snapshot, uiVars, ctlVars, snd, cntVars>>

\* rev-parse or branch --set-upstream-to fails inside the except clause
RepairFail(p, d) ==
    /\ pl[p].pc \in {"revparse", "setupstream"}
    /\ Raise(p, d)
    /\ UNCHANGED <<gitVars, ctlVars, snd, cntVars>>

(* ----------------------- GitChatApp.refresh._do ------------------------- *)
IoDiag == "[Errno 13] Permission denied"

\* threads have no names: a new one takes the first slot not in use
FreeRefresher ==
    IF \A x \in Refreshers : pl[x].pc # "idle" THEN 0
    ELSE CHOOSE x \in Refreshers :
           /\ pl[x].pc = "idle"
           /\ \A y \in Refreshers : pl[y].pc = "idle" => x <= y

\* the Refresh button: threading.Thread(target=_do).start()
RequestRefresh(r) ==
    /\ alive
    /\ r = FreeRefresher
    /\ pl' = [pl EXCEPT ![r] = Puller("pull1", <<>>, 1, 0)]
    /\ ev' = NoEv
    /\ UNCHANGED <<gitVars, snapshot, uiVars, ctlVars, snd, cntVars>>

\* content = read_chat_file()
ReadOk(p) ==
    /\ pl[p].pc = "read"
    /\ pl' = [pl EXCEPT ![p] = Puller(IF p = AutoId THEN "compare" ELSE "install",
                                      ReadChatFile(file), 0, 0)]
    /\ ev' = NoEv
    /\ UNCHANGED <<gitVars, snapshot, uiVars, ctlVars, snd, cntVars>>

ReadFail(p) ==
    /\ pl[p].pc = "read"
    /\ Raise(p, IoDiag)
    /\ UNCHANGED <<gitVars, ctlVars, snd, cntVars>>

\* self._current_content = content; self._set_chat_content(content);
\* self._set_status("Refreshed at ...").  On a destroyed application the Tk
\* calls raise, and so does the _set_status of the except clause.
Install(r) ==
    /\ r \in Refreshers
    /\ pl[r].pc = "install"
    /\ snapshot' = pl[r].content
    /\ display' = IF alive THEN pl[r].content ELSE display
    /\ status' = IF alive THEN St("Refreshed", 0, "") ELSE status
    /\ pl' = [pl EXCEPT ![r] = Puller("idle", <<>>, 0, 0)]
    /\ ev' = Ev("Install", r, 0, 0, Texts(pl[r].content) = Texts(snapshot), alive)
    /\ UNCHANGED <<gitVars, uiQueue, ctlVars, snd, cntVars>>

(* -------------------- GitChatApp._auto_refresh_loop --------------------- *)
\* `if self._auto_refresh.get():`, read at every tick
AutoEnabledAsAtStart == TRUE
AutoEnabled == autoRefresh

\* the loop as `while True:`
AutoCheckNoStop ==
    /\ pl[AutoId].pc = "check"
    /\ IF AutoEnabled
         THEN /\ pl' = [pl EXCEPT ![AutoId].pc = "pull1", ![AutoId].pulls = 1]
              /\ ev' = NoEv
         ELSE /\ pl' = [pl EXCEPT ![AutoId].pc = "sleep"]
              /\ ev' = Quiet("AutoSkip", AutoId)
    /\ UNCHANGED <<gitVars, snapshot, uiVars, ctlVars, snd, cntVars>>
\* `while not self._stop_event.is_set(): if self._auto_refresh.get():`
AutoCheck ==
    /\ pl[AutoId].pc = "check"
    /\ IF stopEvent
         THEN /\ pl' = [pl EXCEPT ![AutoId].pc = "stopped"]
              /\ ev' = NoEv
         ELSE IF AutoEnabled
                THEN /\ pl' = [pl EXCEPT ![AutoId].pc = "pull1", ![AutoId].pulls = 1]
                     /\ ev' = NoEv
                ELSE /\ pl' = [pl EXCEPT ![AutoId].pc = "sleep"]
                     /\ ev' = Quiet("AutoSkip", AutoId)
    /\ UNCHANGED <<gitVars, snapshot, uiVars, ctlVars, snd, cntVars>>

\* `if content != self._current_content:` and its body; after(0, ...) raises
\* on a destroyed application and the bare except swallows it
AutoCompare ==
    /\ pl[AutoId].pc = "compare"
    /\ LET c == pl[AutoId].content
           same == Texts(c) = Texts(snapshot)
       IN  /\ ~same /\ alive => Len(uiQueue) + 2 <= MaxQueue
           /\ snapshot' = IF same THEN snapshot ELSE c
           /\ uiQueue' = IF ~same /\ alive
                           THEN uiQueue \o <<"content", "status">>
                           ELSE uiQueue
           /\ ev' = Ev("AutoCompare", AutoId, 0, 0, same, ~same /\ alive)
    /\ pl' = [pl EXCEPT ![AutoId].pc = "sleep"]
    /\ UNCHANGED <<gitVars, display, status, ctlVars, snd, cntVars>>

\* time.sleep(AUTO_REFRESH_INTERVAL) returns
AutoWake ==
    /\ pl[AutoId].pc = "sleep"
    /\ pl' = [pl EXCEPT ![AutoId].pc = "check"]
    /\ ev' = NoEv
    /\ UNCHANGED <<gitVars, snapshot, uiVars, ctlVars, snd, cntVars>>

(* --------------------------- GitChatApp.send ---------------------------- *)
\* threads have no names: a new one takes the first slot not in use (0 when
\* every slot is taken)
FreeSender ==
    IF \A x \in Senders : snd[x].pc # "idle" THEN 0
    ELSE CHOOSE x \in Senders :
           /\ snd[x].pc = "idle"
           /\ \A y \in Senders : snd[y].pc = "idle" => x <= y

\* send, up to the start of the thread: a blank message returns at once;
\* otherwise the line is appended to the file before the thread exists.
\* With keep, the thread's record remembers the file and the in-memory copy
\* the send began with (ghost).
Send(s, rawUser, rawMsg, ts, keep) ==
    /\ alive
    /\ LET msg == Strip(rawMsg)
           user == UserOf(rawUser)
           line == [id |-> nSent + 1, ts |-> ts, user |-> user, msg |-> msg,
                    text |-> FormatLine(ts, user, msg)]
       IN  IF msg = <<>>
             THEN /\ ev' = Quiet("SendBlank", s)
                  /\ UNCHANGED <<file, snd, nSent>>
             ELSE /\ s = FreeSender
                  /\ nSent < MaxSends
                  /\ file' = AppendMessage(file, line)
                  /\ snd' = [snd EXCEPT ![s] =
                               [pc |-> "add", line |-> line, attempt |-> 0,
                                retries |-> <<>>, trace |-> <<>>, outcome |-> "none",
                                fileAt |-> IF keep THEN file ELSE <<>>,
                                snapAt |-> IF keep THEN snapshot ELSE <<>>]]
                  /\ nSent' = nSent + 1
                  /\ ev' = NoEv
    /\ UNCHANGED <<index, head, remote, snapshot, uiVars, ctlVars, pl, nRemote>>

\* whether range(MAX_RETRIES) yields the index n
MoreAttemptsOften(n) == n <= MAX_RETRIES
MoreAttempts(n) == n < MAX_RETRIES

\* git_commit_and_push over run_git_command: where control goes after the
\* command cmd returned exit status ok
AfterGitNoRaise(cmd, ok) ==
    CASE cmd = "add" -> "commit"
      [] cmd = "commit" -> "push"
      [] cmd = "push" -> "sent"
AfterGit(cmd, ok) ==
    IF ~ok THEN "except"
    ELSE CASE cmd = "add" -> "commit"
           [] cmd = "commit" -> "push"
           [] cmd = "push" -> "sent"

\* git succeeds at `commit` only with something staged, and at `push` only
\* when origin/main is behind the local head
GitCanSucceed(cmd) ==
    CASE cmd = "add" -> TRUE
      [] cmd = "commit" -> index # head
      [] cmd = "push" -> IsPrefix(remote, head)

\* the number shown by f"Retry {attempt+1}/{MAX_RETRIES}: {e}"
RetryNumberFromZero(attempt) == attempt
RetryNumber(attempt) == attempt + 1

\* `self._current_content += line`
SnapshotLost(snap, line) == snap
SnapshotAfterSend(snap, line) == Append(snap, line)

\* one git command of git_commit_and_push returns in thread s; a failure
\* lands in `except Exception as e: self._set_status(f"Retry ...")`
GitStep(s, ok, d) ==
    /\ snd[s].pc \in PushPcs
    /\ ok => GitCanSucceed(snd[s].pc)
    /\ LET cmd == snd[s].pc
           to == AfterGit(cmd, ok)
           tr == Append(snd[s].trace, [cmd |-> cmd, ok |-> ok])
       IN  /\ index' = IF ok /\ cmd = "add" THEN file ELSE index
           /\ head' = IF ok /\ cmd = "commit" THEN index ELSE head
           /\ remote' = IF ok /\ cmd = "push" THEN head ELSE remote
           /\ IF to = "except"
                THEN IF alive
                       THEN /\ status' = St("Retry", RetryNumber(snd[s].attempt), d)
                            /\ snd' = [snd EXCEPT ![s].pc = "backoff", ![s].trace = tr,
                                         ![s].retries = Append(@, RetryNumber(snd[s].attempt))]
                       ELSE /\ snd' = [snd EXCEPT ![s].pc = "dead", ![s].trace = tr]
                            /\ UNCHANGED status
                ELSE /\ snd' = [snd EXCEPT ![s].pc = to, ![s].trace = tr]
                     /\ UNCHANGED status
           /\ ev' = NoEv
    /\ UNCHANGED <<file, snapshot, display, uiQueue, ctlVars, pl, cntVars>>

\* time.sleep(2) returns: the next attempt, or "Send failed after retries"
Backoff(s) ==
    /\ snd[s].pc = "backoff"
    /\ IF MoreAttempts(snd[s].attempt + 1)
         THEN /\ snd' = [snd EXCEPT ![s].pc = "add", ![s].attempt = @ + 1,
                                    ![s].trace = <<>>]
              /\ ev' = NoEv
              /\ UNCHANGED status
         ELSE IF alive
                THEN /\ status' = St("Send failed after retries", 0, "")
                     /\ snd' = [snd EXCEPT ![s].pc = "idle", ![s].outcome = "failed",
                                           ![s].trace = <<>>]
                     /\ ev' = NoEv
                ELSE /\ snd' = [snd EXCEPT ![s].pc = "dead"]
                     /\ ev' = NoEv
                     /\ UNCHANGED status
    /\ UNCHANGED <<gitVars, snapshot, display, uiQueue, ctlVars, pl, cntVars>>

\* _do_send without the `return` after "Sent": the loop goes on
SentNoReturn(s) ==
    /\ snd[s].pc = "sent"
    /\ snapshot' = SnapshotAfterSend(snapshot, snd[s].line)
    /\ display' = snapshot'
    /\ status' = St("Sent", 0, "")
    /\ snd' = [snd EXCEPT ![s].pc = "backoff", ![s].outcome = "sent"]
    /\ ev' = NoEv
    /\ UNCHANGED <<gitVars, uiQueue, ctlVars, pl, cntVars>>
\* after the push: the line joins the in-memory copy, which is shown
Sent(s) ==
    /\ snd[s].pc = "sent"
    /\ snapshot' = SnapshotAfterSend(snapshot, snd[s].line)
    /\ IF alive
         THEN /\ display' = snapshot'
              /\ status' = St("Sent", 0, "")
              /\ snd' = [snd EXCEPT ![s].pc = "idle", ![s].outcome = "sent",
                                         ![s].trace = <<>>]
              /\ ev' = Ev("Sent", s, 0, 0, FALSE, TRUE)
         ELSE /\ snd' = [snd EXCEPT ![s].pc = "dead"]
              /\ ev' = NoEv
              /\ UNCHANGED <<display, status>>
    /\ UNCHANGED <<gitVars, uiQueue, ctlVars, pl, cntVars>>

(* --------------------------- the Tk main thread -------------------------- *)
\* the callbacks of after(0, ...); the lambda reads the loop's `content`
\* when it runs
UIRun ==
    /\ alive
    /\ uiQueue # <<>>
    /\ display' = IF Head(uiQueue) = "content" THEN pl[AutoId].content ELSE display
    /\ status' = IF Head(uiQueue) = "status" THEN St("Auto-updated", 0, "") ELSE status
    /\ uiQueue' = Tail(uiQueue)
    /\ ev' = NoEv
    /\ UNCHANGED <<gitVars, snapshot, ctlVars, pl, snd, cntVars>>

\* the Auto-refresh checkbox
ToggleAuto ==
    /\ alive
    /\ autoRefresh' = ~autoRefresh
    /\ ev' = NoEv
    /\ UNCHANGED <<gitVars, snapshot, uiVars, stopEvent, alive, pl, snd, cntVars>>

\* on_quit: self._stop_event.set(); self.destroy()
Quit ==
    /\ alive
    /\ stopEvent' = TRUE
    /\ alive' = FALSE
    /\ uiQueue' = <<>>
    /\ ev' = NoEv
    /\ UNCHANGED <<gitVars, snapshot, display, status, autoRefresh, pl, snd, cntVars>>

(* ---------------------------- other replicas ---------------------------- *)
RemoteAppend ==
    /\ nRemote < MaxRemote
    /\ remote' = Append(remote, OtherLine(nRemote + 1))
    /\ nRemote' = nRemote + 1
    /\ ev' = NoEv
    /\ UNCHANGED <<file, index, head, snapshot, uiVars, ctlVars, pl, snd, nSent>>

(* ------------------------------ __init__ -------------------------------- *)
\* _load_initial has pulled and read the log (or failed to), the auto-refresh
\* thread has been started
Init ==
    \E base \in {<<>>, <<OtherLine(0)>>}, loaded \in BOOLEAN :
        /\ file = base
        /\ index = base
        /\ head = base
        /\ remote = base
        /\ snapshot = IF loaded THEN ReadChatFile(base) ELSE <<>>
        /\ display = IF loaded THEN ReadChatFile(base) ELSE <<>>
        /\ status = IF loaded THEN St("Loaded", 0, "")
                    ELSE St("Init error", 0, "fatal: unable to access remote")
        /\ autoRefresh = TRUE
        /\ stopEvent = FALSE
        /\ alive = TRUE
        /\ uiQueue = <<>>
        /\ pl = [p \in Pullers |->
                   IF p = AutoId THEN Puller("check", <<>>, 0, 0)
                   ELSE Puller("idle", <<>>, 0, 0)]
        /\ snd = [s \in Senders |-> IdleSender]
        /\ nSent = 0
        /\ nRemote = 0
        /\ ev = NoEv

Next ==
    \/ \E r \in Refreshers : RequestRefresh(r)
    \/ \E p \in Pullers : PullOk(p)
    \/ \E p \in Pullers, d \in Diags : PullFail(p, d)
    \/ \E p \in Pullers : RevParseOk(p)
    \/ \E p \in Pullers : SetUpstreamOk(p)
    \/ \E p \in Pullers, d \in Diags : RepairFail(p, d)
    \/ \E p \in Pullers : ReadOk(p)
    \/ \E p \in Pullers : ReadFail(p)
    \/ \E r \in Refreshers : Install(r)
    \/ AutoCheck
    \/ AutoCompare
    \/ AutoWake
    \/ \E s \in Senders, u \in RawUsers, m \in RawMsgs, t \in Times : Send(s, u, m, t, TRUE)
    \/ \E s \in Senders, ok \in BOOLEAN, d \in Diags : GitStep(s, ok, d)
    \/ \E s \in Senders : Backoff(s)
    \/ \E s \in Senders : Sent(s)
    \/ UIRun
    \/ ToggleAuto
    \/ Quit
    \/ RemoteAppend

Spec == Init /\ [][Next]_vars

(* --------------------- the specifications checked ----------------------- *)
\* The refresh side alone: the auto-refresh thread and the manual refresh
\* threads against other replicas' pushes, auto-refresh left enabled.
NextRefresh ==
    \/ \E r \in Refreshers : RequestRefresh(r)
    \/ \E p \in Pullers : PullOk(p)
    \/ \E p \in Pullers, d \in Diags : PullFail(p, d)
    \/ \E p \in Pullers : RevParseOk(p)
    \/ \E p \in Pullers : SetUpstreamOk(p)
    \/ \E p \in Pullers, d \in Diags : RepairFail(p, d)
    \/ \E p \in Pullers : ReadOk(p)
    \/ \E p \in Pullers : ReadFail(p)
    \/ \E r \in Refreshers : Install(r)
    \/ AutoCheck
    \/ AutoCompare
    \/ AutoWake
    \/ UIRun
    \/ RemoteAppend

\* the log already holds a line when the program starts
InitWithLog == Init /\ file # <<>>

SpecRefresh == InitWithLog /\ [][NextRefresh]_vars

\* The auto-refresh thread alone, with the checkbox and shutdown.
NextAuto ==
    \/ PullOk(AutoId)
    \/ \E d \in Diags : PullFail(AutoId, d)
    \/ RevParseOk(AutoId)
    \/ SetUpstreamOk(AutoId)
    \/ \E d \in Diags : RepairFail(AutoId, d)
    \/ ReadOk(AutoId)
    \/ ReadFail(AutoId)
    \/ AutoCheck
    \/ AutoCompare
    \/ AutoWake
    \/ UIRun
    \/ ToggleAuto
    \/ Quit
    \/ RemoteAppend

SpecAuto == Init /\ [][NextAuto]_vars

\* The send side alone, with auto-refresh never pulling: one send at a time,
\* the next one requested after the previous thread has ended.
NoSendRunning == \A x \in Senders : snd[x].pc \in {"idle", "dead"}

SoloSend(s, u, m, t) == NoSendRunning /\ Send(s, u, m, t, TRUE)

NextSend ==
    \/ \E s \in Senders, u \in RawUsers, m \in RawMsgs, t \in Times : SoloSend(s, u, m, t)
    \/ \E s \in Senders, ok \in BOOLEAN, d \in Diags : GitStep(s, ok, d)
    \/ \E s \in Senders : Backoff(s)
    \/ \E s \in Senders : Sent(s)
    \/ Quit
    \/ RemoteAppend

SpecSend == Init /\ [][NextSend]_vars

\* One send thread at a time together with one manual refresh thread at a
\* time: one user, and git failing for the network alone (no upstream
\* repair).
NoRefreshRunning == \A x \in Refreshers : pl[x].pc = "idle"

SoloRefresh(r) == NoRefreshRunning /\ RequestRefresh(r)

MixedSend(s, m, t) == NoSendRunning /\ Send(s, <<"B">>, m, t, FALSE)

NetDiag == "fatal: unable to access remote"

NextMixed ==
    \/ \E r \in Refreshers : SoloRefresh(r)
    \/ \E p \in Refreshers : PullOk(p)
    \/ \E p \in Refreshers : PullFail(p, NetDiag)
    \/ \E p \in Refreshers : ReadOk(p)
    \/ \E p \in Refreshers : ReadFail(p)
    \/ \E r \in Refreshers : Install(r)
    \/ \E s \in Senders, m \in RawMsgs, t \in Times : MixedSend(s, m, t)
    \/ \E s \in Senders, ok \in BOOLEAN : GitStep(s, ok, NetDiag)
    \/ \E s \in Senders : Backoff(s)
    \/ \E s \in Senders : Sent(s)
    \/ RemoteAppend

SpecMixed == InitWithLog /\ [][NextMixed]_vars

\* The send side of a running application, as SpecSend without on_quit: the
\* thread of _do_send is scheduled again and again, and every git command
\* and every time.sleep(2) it waits for returns.
SendThreadStep(s) ==
    \/ \E ok \in BOOLEAN, d \in Diags : GitStep(s, ok, d)
    \/ Backoff(s)
    \/ Sent(s)

NextSendFair ==
    \/ \E s \in Senders, m \in RawMsgs, t \in Times : MixedSend(s, m, t)
    \/ \E s \in Senders : SendThreadStep(s)
    \/ RemoteAppend

SpecSendFair ==
    /\ Init
    /\ [][NextSendFair]_vars
    /\ \A s \in Senders : WF_vars(SendThreadStep(s))
\* SpecAuto with the auto-refresh thread scheduled again and again: every
\* git command, the read and time.sleep(AUTO_REFRESH_INTERVAL) return.
AutoThreadStep ==
    \/ AutoCheck
    \/ PullOk(AutoId)
    \/ \E d \in Diags : PullFail(AutoId, d)
    \/ RevParseOk(AutoId)
    \/ SetUpstreamOk(AutoId)
    \/ \E d \in Diags : RepairFail(AutoId, d)
    \/ ReadOk(AutoId)
    \/ ReadFail(AutoId)
    \/ AutoCompare
    \/ AutoWake

SpecAutoFair ==
    /\ Init
    /\ [][NextAuto]_vars
    /\ WF_vars(AutoThreadStep)
(* -------------------------------- claims -------------------------------- *)
PullsInFlight == {p \in Pullers : pl[p].pc \in PullPcs}
PushesInFlight == {s \in Senders : snd[s].pc \in PushPcs}

\* C1: at most one remote operation (a pull, or a stage+commit+push
\* sequence) is in flight against the working copy at any instant.
C1_OneRemoteOperation ==
    Cardinality(PullsInFlight) + Cardinality(PushesInFlight) <= 1

Started(s) == snd[s].line.id # 0

\* C2: from the append of a send on, and so once the send has reported
\* success or exhaustion, the log file holds the entry's line exactly once,
\* whatever the attempts and the pulls in between did.
C2_AppendedExactlyOnce ==
    \A s \in Senders : Started(s) => Count(file, snd[s].line.id) = 1

C2_Witness ==
    \E s \in Senders :
        /\ snd[s].outcome = "failed"
        /\ Len(snd[s].retries) = MAX_RETRIES
        /\ Count(file, snd[s].line.id) = 1

\* C3: a send never starts an attempt beyond MAX_RETRIES; it reports
\* exhaustion after exactly MAX_RETRIES failed attempts, and then its thread
\* has ended.
C3_RetryBound ==
    \A s \in Senders :
        /\ snd[s].attempt < MAX_RETRIES
        /\ Len(snd[s].retries) <= MAX_RETRIES
        /\ snd[s].outcome = "failed" =>
             /\ snd[s].pc = "idle"
             /\ snd[s].attempt + 1 = MAX_RETRIES
             /\ Len(snd[s].retries) = MAX_RETRIES
        /\ snd[s].pc = "idle" /\ Len(snd[s].retries) = MAX_RETRIES =>
             snd[s].outcome = "failed"

C3_Witness ==
    \E s \in Senders :
        /\ snd[s].outcome = "failed"
        /\ snd[s].retries = <<1, 2, 3>>
        /\ status.kind = "Send failed after retries"

\* C4: one git_pull call runs at most two pulls and at most one repair: the
\* repair follows a first failure that carries the upstream-missing text, the
\* second pull follows the repair, and whatever the second pull fails with
\* goes to the caller.
C4_OneRepairOneRetry ==
    /\ \A p \in Pullers :
         /\ pl[p].pulls <= 2
         /\ pl[p].repairs <= 1
         /\ pl[p].pc \in {"pull1", "revparse", "setupstream"} =>
              pl[p].pulls = 1 /\ pl[p].repairs = 0
         /\ pl[p].pc = "pull2" => pl[p].pulls = 2 /\ pl[p].repairs = 1
    /\ ev.op = "Raise" => ev.pulls \in 1..2 /\ ev.repairs = ev.pulls - 1

C4_Witness ==
    /\ ev.op = "Raise"
    /\ ev.who \in Refreshers
    /\ ev.pulls = 2
    /\ ev.repairs = 1
    /\ status.kind = "Refresh error"
    /\ UpstreamMissing(status.diag)

\* C5: a refresh (manual or automatic) that pulled and read a content equal
\* to the in-memory copy does not replace the displayed content.
C5_UnchangedRefreshIsSilent ==
    ev.op \in {"Install", "AutoCompare"} /\ ev.same => ~ev.shown

RaiseStep(p) == pl[p].pc \in PullPcs /\ pl'[p].pc \in {"idle", "sleep"}

\* C6: the step in which a refresh's git_pull fails leaves the in-memory copy
\* and the displayed content as they were, ends that thread alone and, for a
\* manual refresh of a live application, puts the error in the status.
C6_FailedRefreshKeepsState ==
    [][\A p \in Pullers :
         RaiseStep(p) =>
           /\ snapshot' = snapshot
           /\ display' = display
           /\ alive' = alive
           /\ \A q \in Pullers \ {p} : pl'[q] = pl[q]
           /\ p \in Refreshers /\ alive => status'.kind = "Refresh error"]_vars

C6_Witness ==
    /\ ev.op = "Raise"
    /\ ev.who \in Refreshers
    /\ ev.pulls = 1
    /\ alive
    /\ status.kind = "Refresh error"
    /\ snapshot # <<>>
    /\ display = snapshot

\* C7: the auto-refresh thread starts a pull only at a tick, and only with
\* auto-refresh enabled at that tick; a tick that finds it enabled (and no
\* stop requested) starts a pull.
C7_AutoRefreshGating ==
    [][/\ pl[AutoId].pc \notin PullPcs /\ pl'[AutoId].pc \in PullPcs =>
            pl[AutoId].pc = "check" /\ autoRefresh
       /\ pl[AutoId].pc = "check" /\ pl'[AutoId].pc # "check"
            /\ autoRefresh /\ ~stopEvent => pl'[AutoId].pc = "pull1"]_vars

C7_Witness ==
    /\ ev.op = "AutoSkip"
    /\ ~autoRefresh
    /\ pl[AutoId].pc = "sleep"
    /\ pl[AutoId].content # <<>>

JustSent(s) == ev.op = "Sent" /\ ev.who = s

\* the state an immediately successful send ends in, from the state it began in
ExpectedFile(s) == Append(snd[s].fileAt, snd[s].line)
ExpectedSnapshot(s) == Append(snd[s].snapAt, snd[s].line)

C9_FirstAttemptSuccess ==
    \A s \in Senders :
        JustSent(s) /\ snd[s].attempt = 0 /\ Texts(snd[s].snapAt) = Texts(snd[s].fileAt) =>
            LET l == snd[s].line
            IN  /\ l.msg # <<>>
                /\ l.text = <<"[", l.ts, "]", " ">> \o l.user \o <<":", " ">>
                              \o l.msg \o <<"\n">>
                /\ file = Append(snd[s].fileAt, l)
                /\ Texts(snapshot) = Texts(file)
                /\ display = snapshot
                /\ status = St("Sent", 0, "")

C9_Witness ==
    \E s \in Senders :
        /\ JustSent(s)
        /\ snd[s].attempt = 0
        /\ snd[s].fileAt # <<>>
        /\ snd[s].snapAt = snd[s].fileAt
        /\ snd[s].line.user = Anon

GitOrder == <<"add", "commit", "push">>

\* C10: the commands of one attempt are stage, commit, push, in this order,
\* each one issued only after the one before it succeeded: nothing follows a
\* failed command within the attempt.
C10_StageCommitPushInOrder ==
    \A s \in Senders :
        LET tr == snd[s].trace
        IN  /\ Len(tr) <= 3
            /\ \A i \in DOMAIN tr :
                 /\ tr[i].cmd = GitOrder[i]
                 /\ i < Len(tr) => tr[i].ok
            /\ snd[s].pc \in PushPcs =>
                 /\ snd[s].pc = GitOrder[Len(tr) + 1]
                 /\ \A i \in DOMAIN tr : tr[i].ok
            /\ snd[s].pc = "sent" => Len(tr) = 3 /\ tr[3].ok

C10_Witness ==
    \E s \in Senders :
        /\ snd[s].pc = "backoff"
        /\ Len(snd[s].trace) = 2
        /\ snd[s].trace[1].ok
        /\ ~snd[s].trace[2].ok

\* a send thread that is in an attempt, or between two attempts
InAttempt(s) == snd[s].pc \in PushPcs \cup {"sent", "backoff"}

\* the first attempt of thread s is about to issue its first command
FirstAttemptBegins(s) == snd[s].pc = "add" /\ snd[s].attempt = 0

\* C11: when the first attempt of a send begins, the file already holds the
\* send's line and no stage, commit or push has seen it yet; and while a send
\* is in or between attempts the file holds its line, so that whatever is
\* staged, committed or pushed of the line was appended first.
C11_AppendBeforeFirstAttempt ==
    \A s \in Senders :
        LET id == snd[s].line.id
        IN  /\ InAttempt(s) => Count(file, id) = 1
            /\ FirstAttemptBegins(s) =>
                 /\ snd[s].trace = <<>>
                 /\ Count(index, id) = 0
                 /\ Count(head, id) = 0
                 /\ Count(remote, id) = 0
            /\ InAttempt(s) =>
                 /\ Count(remote, id) <= Count(head, id)
                 /\ Count(head, id) <= Count(index, id)
                 /\ Count(index, id) <= Count(file, id)

C11_Witness ==
    \E s \in Senders, r \in Refreshers :
        /\ snd[s].pc = "commit"
        /\ snd[s].attempt = 0
        /\ pl[r].pc \in PullPcs
        /\ Count(index, snd[s].line.id) = 1
        /\ Count(file, snd[s].line.id) = 1

\* thread s reports the terminal status o in this step
Reports(s, o) == snd[s].outcome # o /\ snd'[s].outcome = o

\* a git command of thread s fails in this step
RemoteCallFails(s) == snd[s].pc \in PushPcs /\ snd'[s].pc \notin PushPcs \cup {"sent"}

\* C12: with the thread of a send scheduled fairly and every git command
\* returning, a send that has started ends with one terminal status: "Sent"
\* or "Send failed after retries" is written to the status at the step that
\* ends the thread, nothing is reported for that send afterwards, a thread
\* never ends without either, and a failed git command leaves the
\* application running and the thread in its retry loop.
C12_OneTerminalStatus ==
    /\ [][\A s \in Senders :
            /\ Reports(s, "sent") =>
                 status' = St("Sent", 0, "") /\ snd[s].outcome = "none"
            /\ Reports(s, "failed") =>
                 status' = St("Send failed after retries", 0, "")
                 /\ snd[s].outcome = "none"
            /\ snd[s].outcome # "none" /\ snd'[s].line.id = snd[s].line.id =>
                 snd'[s] = snd[s]
            /\ snd[s].pc # "idle" /\ snd'[s].pc = "idle" =>
                 snd'[s].outcome \in {"sent", "failed"}
            /\ RemoteCallFails(s) =>
                 alive' = alive /\ snd'[s].pc = "backoff"]_vars
    /\ \A s \in Senders :
         (snd[s].pc # "idle") ~>
             (snd[s].pc = "idle" /\ snd[s].outcome \in {"sent", "failed"})

C12_Witness ==
    \E s \in Senders :
        /\ snd[s].outcome = "sent"
        /\ snd[s].retries = <<1>>
        /\ snd[s].line.id = 2
        /\ status.kind = "Sent"

\* C13: with refreshes alone (no send), the in-memory copy only grows: no
\* refresh replaces it with an older content of the log, one that is a
\* proper prefix of what another refresh has installed.
C13_NewerSnapshotStays ==
    [][~(snapshot' # snapshot /\ IsPrefix(snapshot', snapshot))]_vars

\* C14: when a send has just reported "Sent", the in-memory copy holds the
\* line of that send exactly once, whatever refresh ran between the append
\* and the push.
C14_SentLineOnce ==
    \A s \in Senders : JustSent(s) => Count(snapshot, snd[s].line.id) = 1

\* C15: a step taken by a background thread (one that moves a refresh
\* thread, the auto-refresh thread or a send thread) writes neither the
\* displayed content nor the status: these change only when the main thread
\* runs a callback handed over with after(0, ...).
C15_PresentationOnlyMarshalled ==
    [][pl' # pl \/ snd' # snd => display' = display /\ status' = status]_vars

\* the pull or the read of the auto-refresh thread fails in this step
AutoTickFails ==
    pl[AutoId].pc \in PullPcs \cup {"read"} /\ pl'[AutoId].pc = "sleep"

\* C16: the step in which the pull or the read of an auto-refresh tick fails
\* changes neither the status nor the displayed content, hands nothing over
\* to the main thread, leaves the in-memory copy as it was and puts the
\* thread into the sleep before its next tick; and the sleep ends in the
\* check that starts the next tick.
C16_FailedTickIsSilent ==
    [][/\ AutoTickFails =>
            /\ status' = status
            /\ display' = display
            /\ uiQueue' = uiQueue
            /\ snapshot' = snapshot
            /\ stopEvent' = stopEvent
       /\ pl[AutoId].pc = "sleep" /\ pl'[AutoId].pc # "sleep" =>
            pl'[AutoId].pc = "check"]_vars

C16_Witness ==
    /\ ev.op = "Raise"
    /\ ev.who = AutoId
    /\ ev.pulls = 2
    /\ pl[AutoId].pc = "sleep"
    /\ alive
    /\ status.kind = "Loaded"
    /\ nRemote = 1
    /\ Len(snapshot) < Len(remote)

AutoStopped == pl[AutoId].pc = "stopped"

\* C17: the stop flag, once set, stays set; from then on the auto-refresh
\* thread does not enter git_pull again (the pull it is in may go on to its
\* end, with its read and its comparison), the check at the start of an
\* iteration ends the loop, and with the thread scheduled fairly the loop
\* does end, for good.
C17_StopEndsAutoLoop ==
    /\ [][/\ stopEvent => stopEvent'
          /\ stopEvent /\ pl[AutoId].pc \notin PullPcs => pl'[AutoId].pc \notin PullPcs
          /\ stopEvent /\ pl[AutoId].pc = "check" /\ pl'[AutoId].pc # "check" => AutoStopped'
          /\ AutoStopped => AutoStopped']_vars
    /\ stopEvent ~> AutoStopped

C17_Witness ==
    /\ stopEvent
    /\ AutoStopped
    /\ Texts(snapshot) = Texts(file)
    /\ Len(snapshot) > Len(display)
    /\ nRemote = 1

\* the send of line number id is over and never reported "Sent": with one
\* send at a time and no refresh, the in-memory copy holds exactly the lines
\* whose sends reported "Sent"
EndedInExhaustion(id) ==
    /\ id \in 1..nSent
    /\ \A s \in Senders : snd[s].line.id # id
    /\ Count(snapshot, id) = 0

\* C18: when a send has just reported "Sent", every line of an earlier send
\* that ended in exhaustion is in the remote log exactly once, before the
\* line just sent, which is there exactly once as well.
C18_ExhaustedLineDeliveredLater ==
    \A s \in Senders :
        JustSent(s) =>
            \A id \in 1..MaxSends :
                EndedInExhaustion(id) /\ id < snd[s].line.id =>
                    /\ Count(remote, id) = 1
                    /\ Count(remote, snd[s].line.id) = 1
                    /\ \A i, j \in DOMAIN remote :
                         remote[i].id = id /\ remote[j].id = snd[s].line.id => i < j
                    /\ Count(file, id) = 1

C18_Witness ==
    \E s \in Senders :
        /\ JustSent(s)
        /\ snd[s].line.id = 2
        /\ snd[s].attempt = 0
        /\ EndedInExhaustion(1)
        /\ Count(head, 1) = 1
        /\ Count(remote, 1) = 1
        /\ Count(remote, 2) = 1

\* C19: a send whose message is empty or all whitespace returns at once: the
\* step changes neither the file, the index, the branch or the remote, nor
\* the in-memory copy, the displayed content or the status, and starts no
\* thread; so the log never gets a line with a blank message.
C19_BlankSendChangesNothing ==
    /\ [](\A i \in DOMAIN file :
            \E k \in DOMAIN file[i].msg : ~IsSpace(file[i].msg[k]))
    /\ [][ev'.op = "SendBlank" =>
            UNCHANGED <<gitVars, snapshot, uiVars, ctlVars, pl, snd, cntVars>>]_vars

C19_Witness ==
    /\ ev.op = "SendBlank"
    /\ nSent = 1
    /\ status.kind = "Sent"
    /\ \A s \in Senders : snd[s].pc = "idle"
    /\ Len(file) = Len(remote)

====
